---- MODULE Spec2Model ----
(***************************************************************************)
(* Model of backend/app.py: the /api/analyze handler analyze_portfolio.    *)
(*                                                                         *)
(* Numbers.  pandas/numpy compute in IEEE doubles; the model computes the   *)
(* same quantities over exact values:                                      *)
(*   NaN                      the missing / undefined marker               *)
(*   Inf                      +infinity (a positive price over a zero one)  *)
(*   [k |-> "num", n, d]      the rational n/d, d > 0, in lowest terms      *)
(*   [k |-> "sqrt", n, d]     sign(n) * sqrt(|n|/d): a standard deviation,  *)
(*                            a Sharpe ratio or a Pearson correlation       *)
(* Prices are never negative, so -infinity does not arise.                 *)
(***************************************************************************)
EXTENDS Integers, Sequences, FiniteSets, TLC

\* ------------------------------------------------------------------ bounds
\* most rows (trading dates) a table of the requested symbols holds
MaxRows == 3
\* most rows the benchmark table holds
BenchRows == 3

\* ------------------------------------------------------------ input values
\* the symbols a request may name, in order
TickerLists == {<<>>, <<"A">>, <<"A", "B">>}
\* the prices of a regular trading day
Prices == {1, 2}

\* ------------------------------------------------------- program constants
TradingDays == 252
MAWindow == 50
CorrDigits == 3
VolDigits == 4
PriceDigits == 2
SharpeDigits == 3
BetaDigits == 3
DrawdownDigits == 4
ReturnDigits == 4
StatusOk == 200
StatusBadRequest == 400
StatusServerError == 500

\* ------------------------------------------------------------ exact values
NaN == [k |-> "nan", n |-> 0, d |-> 1]
Inf == [k |-> "inf", n |-> 0, d |-> 1]

Abs(x) == IF x < 0 THEN -x ELSE x
Sgn(x) == IF x < 0 THEN -1 ELSE IF x = 0 THEN 0 ELSE 1

RECURSIVE GCD(_, _)
GCD(a, b) == IF b = 0 THEN a ELSE GCD(b, a % b)

\* the rational n/d (d > 0) in lowest terms
Q(n, d) ==
    LET g == GCD(Abs(n), d)
    IN  [k |-> "num", n |-> n \div g, d |-> d \div g]

Zero == Q(0, 1)
One == Q(1, 1)
FromInt(i) == Q(i, 1)

\* sign(n) * sqrt(|n|/d); a zero radicand is the number 0
Surd(n, d) ==
    LET g == GCD(Abs(n), d)
    IN  IF n = 0 THEN Zero ELSE [k |-> "sqrt", n |-> n \div g, d |-> d \div g]

IsNaN(x) == x.k = "nan"
IsInf(x) == x.k = "inf"
IsNum(x) == x.k = "num"
IsSurd(x) == x.k = "sqrt"
IsZero(x) == x.k = "num" /\ x.n = 0

\* rational arithmetic on values in lowest terms; a product cancels its
\* factors crosswise and so is in lowest terms too
QNeg(a) == [k |-> "num", n |-> -a.n, d |-> a.d]
QAdd(a, b) ==
    IF a.d = b.d THEN Q(a.n + b.n, a.d)
    ELSE Q(a.n * b.d + b.n * a.d, a.d * b.d)
QSub(a, b) == QAdd(a, QNeg(b))
QMul(a, b) ==
    LET g1 == GCD(Abs(a.n), b.d)
        g2 == GCD(Abs(b.n), a.d)
    IN  IF a.n = 0 \/ b.n = 0 THEN Zero
        ELSE [k |-> "num", n |-> (a.n \div g1) * (b.n \div g2), d |-> (a.d \div g2) * (b.d \div g1)]
QInv(a) == [k |-> "num", n |-> Sgn(a.n) * a.d, d |-> Abs(a.n)]
QDiv(a, b) == QMul(a, QInv(b))
QLess(a, b) == a.n * b.d < b.n * a.d
QLeq(a, b) == a.n * b.d <= b.n * a.d
QMin(a, b) == IF QLess(b, a) THEN b ELSE a
QMax(a, b) == IF QLess(a, b) THEN b ELSE a

RECURSIVE Pow10(_)
Pow10(e) == IF e = 0 THEN 1 ELSE 10 * Pow10(e - 1)

\* floor of sqrt(i) by bisection on lo..hi
RECURSIVE ISqrtIn(_, _, _)
ISqrtIn(i, lo, hi) ==
    IF lo = hi THEN lo
    ELSE LET mid == (lo + hi + 1) \div 2
         IN  IF mid * mid <= i THEN ISqrtIn(i, mid, hi) ELSE ISqrtIn(i, lo, mid - 1)
ISqrt(i) == ISqrtIn(i, 0, IF i < 46340 THEN i ELSE 46340)

\* round-half-even of q * 10^digits, decided from the truncated quotient q,
\* the next decimal digit's comparison with one half (cmp) and q's parity
HalfEven(q, cmp) ==
    IF cmp > 0 THEN q + 1
    ELSE IF cmp < 0 THEN q
    ELSE IF q % 2 = 0 THEN q ELSE q + 1

\* long division: <<floor(n * 10^e / d), remainder>> for n >= 0
RECURSIVE LongDiv(_, _, _, _)
LongDiv(q, r, d, e) ==
    IF e = 0 THEN <<q, r>>
    ELSE LongDiv(q * 10 + ((r * 10) \div d), (r * 10) % d, d, e - 1)

\* a rational rounded to `digits` decimals (numpy.round: ties to even)
RoundQ(a, digits) ==
    LET m == Abs(a.n)
        qr == LongDiv(m \div a.d, m % a.d, a.d, digits)
        cmp == Sgn(2 * qr[2] - a.d)
    IN  Q(Sgn(a.n) * HalfEven(qr[1], cmp), Pow10(digits))

\* longhand square root: root = floor(sqrt(x) * 10^e) with x = n/d >= 0, fed two
\* decimal digits of x at a time; <<root, remainder, division remainder>>
RECURSIVE SqrtDigit(_, _, _)
SqrtDigit(root, cur, y) == IF (20 * root + y) * y <= cur THEN y ELSE SqrtDigit(root, cur, y - 1)
RECURSIVE SqrtDigits(_, _, _, _, _)
SqrtDigits(root, rem, r, d, e) ==
    IF e = 0 THEN <<root, rem, r>>
    ELSE IF rem = 0 /\ r = 0 THEN <<root * Pow10(e), 0, 0>>
    ELSE LET cur == rem * 100 + ((r * 100) \div d)
             est == IF root = 0 THEN 9 ELSE cur \div (20 * root)
             x == SqrtDigit(root, cur, IF est > 9 THEN 9 ELSE est)
         IN  SqrtDigits(10 * root + x, cur - (20 * root + x) * x, (r * 100) % d, d, e - 1)

\* a surd rounded to `digits` decimals
RoundSurd(a, digits) ==
    LET m == Abs(a.n)
        ip == m \div a.d
        r0 == ISqrt(ip)
        res == SqrtDigits(r0, ip - r0 * r0, m % a.d, a.d, digits + 1)
        q == res[1] \div 10
        last == res[1] % 10
        exact == res[2] = 0 /\ res[3] = 0
        cmp == IF last > 5 THEN 1 ELSE IF last < 5 THEN -1 ELSE IF exact THEN 0 ELSE 1
    IN  Q(Sgn(a.n) * HalfEven(q, cmp), Pow10(digits))

\* round(x, digits) / Series.round(digits): NaN and inf pass through
Round(x, digits) ==
    IF IsNum(x) THEN RoundQ(x, digits)
    ELSE IF IsSurd(x) THEN RoundSurd(x, digits)
    ELSE x

\* x / y as numpy divides doubles: no exception, NaN and inf by the IEEE rules
\* (y is a rational or a non-negative surd, x a rational)
Divide(x, y) ==
    IF IsNaN(x) \/ IsNaN(y) THEN NaN
    ELSE IF IsInf(x) THEN (IF IsInf(y) THEN NaN ELSE Inf)
    ELSE IF IsInf(y) THEN Zero
    ELSE IF IsZero(y) THEN (IF IsZero(x) THEN NaN ELSE Inf)
    ELSE IF IsNum(y) THEN QDiv(x, y)
    ELSE LET sq == QDiv(QMul(x, x), Q(y.n, y.d))
         IN  Surd(Sgn(x.n) * sq.n, sq.d)


\* ---------------------------------------------------------- pandas: Series
\* a column is a sequence of values, one per date; dates are 1..Len(column)
Valid(col) == SelectSeq(col, LAMBDA x : ~IsNaN(x))
HasInf(col) == \E i \in 1..Len(col) : IsInf(col[i])

\* the sum of the first i values of a column
RECURSIVE SumTo(_, _)
SumTo(col, i) == IF i = 0 THEN Zero ELSE QAdd(col[i], SumTo(col, i - 1))
SumQ(col) == SumTo(col, Len(col))

\* Series.mean(): missing values are skipped; nothing left is NaN
Mean(col) ==
    LET v == Valid(col)
    IN  IF v = <<>> THEN NaN
        ELSE IF HasInf(v) THEN Inf
        ELSE QDiv(SumQ(v), FromInt(Len(v)))

\* the deviations from the mean of a column of finite values
Dev(xs) ==
    LET m == QDiv(SumQ(xs), FromInt(Len(xs)))
    IN  [i \in 1..Len(xs) |-> QSub(xs[i], m)]

\* sum of products of deviations of two equally long columns of finite values
SumDev(xs, ys) ==
    LET dx == Dev(xs)
        dy == Dev(ys)
    IN  SumQ([i \in 1..Len(xs) |-> QMul(dx[i], dy[i])])

\* Series.cov(other) on aligned pairs, ddof = 1: fewer than 2 pairs is NaN
Cov(xs, ys) ==
    IF Len(xs) < 2 \/ HasInf(xs) \/ HasInf(ys) THEN NaN
    ELSE QDiv(SumDev(xs, ys), FromInt(Len(xs) - 1))

\* Series.var(), ddof = 1, missing values skipped
Var(col) == LET v == Valid(col) IN Cov(v, v)

\* Series.std(): the square root of the variance
Std(col) == LET v == Var(col) IN IF IsNum(v) THEN Surd(v.n, v.d) ELSE v

\* x * np.sqrt(252) for a standard deviation x
TimesSqrt(x, c) == IF IsNum(x) \/ IsSurd(x) THEN Surd(x.n * c, x.d) ELSE x

\* x * 252 for a mean x
TimesInt(x, c) == IF IsNum(x) THEN QMul(x, FromInt(c)) ELSE x

\* Series.ffill(): a missing value takes the last value before it
RECURSIVE FFillFrom(_, _)
FFillFrom(col, last) ==
    IF col = <<>> THEN <<>>
    ELSE LET x == IF IsNaN(Head(col)) THEN last ELSE Head(col)
         IN  <<x>> \o FFillFrom(Tail(col), x)
FFill(col) == FFillFrom(col, NaN)

\* cur / prev - 1 in doubles
Change(cur, prev) ==
    IF IsNaN(cur) \/ IsNaN(prev) THEN NaN
    ELSE IF IsZero(prev) THEN (IF IsZero(cur) THEN NaN ELSE Inf)
    ELSE QSub(QDiv(cur, prev), One)

\* Series.pct_change(): with fill_method "pad" (the default before pandas 3) the
\* column is forward-filled first; with no fill it is used as it is
PctChange(col, fill) ==
    LET data == IF fill = "pad" THEN FFill(col) ELSE col
    IN  [i \in 1..Len(col) |-> IF i = 1 THEN NaN ELSE Change(data[i], data[i - 1])]

\* the positions where both columns hold a value
Both(xs, ys) == SelectSeq([i \in 1..Len(xs) |-> i], LAMBDA i : ~IsNaN(xs[i]) /\ ~IsNaN(ys[i]))
Take(col, idx) == [j \in 1..Len(idx) |-> col[idx[j]]]

\* Pearson correlation of two columns over the positions where both hold a
\* value (DataFrame.corr, min_periods = 1): covariance over the root of the
\* product of the sums of squares; a zero divisor or no pair is NaN
Pearson(xs, ys) ==
    LET idx == Both(xs, ys)
        x == Take(xs, idx)
        y == Take(ys, idx)
        sxx == SumDev(x, x)
        syy == SumDev(y, y)
        sxy == SumDev(x, y)
        den == QMul(sxx, syy)
        sq == QDiv(QMul(sxy, sxy), den)
    IN  IF idx = <<>> \/ HasInf(x) \/ HasInf(y) THEN NaN
        ELSE IF IsZero(den) THEN NaN
        ELSE Surd(Sgn(sxy.n) * sq.n, sq.d)

\* ------------------------------------------------------- pandas: DataFrame
None == [kind |-> "none"]
Frame(columns, rows, col) == [kind |-> "frame", columns |-> columns, rows |-> rows, col |-> col]
Series(rows, values) == [kind |-> "series", rows |-> rows, values |-> values]
Scalar(value) == [kind |-> "scalar", value |-> value]
Range(s) == {s[i] : i \in 1..Len(s)}

\* DataFrame.empty / Series.empty: no rows (or no columns)
Empty(x) == x.rows = 0 \/ (x.kind = "frame" /\ x.columns = <<>>)

\* the correlation of the daily changes instead of the prices
FrameCorrOfChanges(df) == [s \in Range(df.columns) |-> [t \in Range(df.columns) |-> Pearson(PctChange(df.col[s], "none"), PctChange(df.col[t], "none"))]]

\* DataFrame.corr(): every pair of columns
FrameCorr(df) == [s \in Range(df.columns) |-> [t \in Range(df.columns) |-> Pearson(df.col[s], df.col[t])]]

\* DataFrame.pct_change()
FramePctChange(df, fill) == Frame(df.columns, df.rows, [s \in Range(df.columns) |-> PctChange(df.col[s], fill)])

\* DataFrame.mean(axis=1): per date, the mean of the values present (skipna)
RowMean(df) == [i \in 1..df.rows |-> Mean([j \in 1..Len(df.columns) |-> df.col[df.columns[j]][i]])]

\* DataFrame.rolling(window).mean().iloc[-1]: the mean of the last `window`
\* rows, NaN unless all `window` of them hold a value
RollingLast(col, window) ==
    LET n == Len(col)
        w == SubSeq(col, n - window + 1, n)
    IN  IF n < window \/ Len(Valid(w)) < window THEN NaN ELSE Mean(w)

\* DataFrame.squeeze() of a one-column frame: a Series, or a scalar when it
\* has exactly one row
Squeeze(df) ==
    LET c == df.col[df.columns[1]]
    IN  IF df.rows = 1 THEN Scalar(c[1]) ELSE Series(df.rows, c)

\* ------------------------------------------------- the market-data gateway
\* What yf.download may answer.  A table has a column layout ("flat": one
\* column per field, of a single symbol; "multi": two levels, field then
\* symbol), its fields in column order, its rows, and per field the prices.  The field the prices are
\* drawn for is the close (else the adjusted close, else the first one); the
\* table's other fields carry other numbers (here: one more).
FieldLists == {<<"Close", "Open">>, <<"Adj Close", "Close", "Open">>, <<"Adj Close", "Open">>, <<"Open">>}
Layouts == {"flat", "multi"}
Benchmark == "^GSPC"

RegularColumns(n) == [1..n -> {FromInt(p) : p \in Prices}]
\* a table of regular prices, or one with a single cell of its first symbol
\* missing or zero (the handler treats all symbols alike)
PriceTables(symbols, n) ==
    LET regular == [Range(symbols) -> RegularColumns(n)]
    IN  regular \cup {[t EXCEPT ![symbols[1]][i] = v] : t \in regular, i \in 1..n, v \in {NaN, Zero}}

Quoted(fields) ==
    IF "Close" \in Range(fields) THEN "Close"
    ELSE IF "Adj Close" \in Range(fields) THEN "Adj Close"
    ELSE fields[1]
Other(col) == [i \in DOMAIN col |-> IF IsNum(col[i]) THEN QAdd(col[i], One) ELSE col[i]]

RawTable(layout, fields, symbols, rows, prices) ==
    [layout |-> layout, fields |-> fields, symbols |-> symbols, rows |-> rows,
     data |-> [f \in Range(fields) |->
                 [s \in Range(symbols) |-> IF f = Quoted(fields) THEN prices[s] ELSE Other(prices[s])]]]

\* yf.download(tickers): two-level over all the symbols, or flat (one symbol's
\* columns), with up to MaxRows rows
StockTables(symbols) ==
    UNION {{RawTable(l, f, IF l = "multi" THEN symbols ELSE <<symbols[1]>>, n, t) :
              t \in PriceTables(IF l = "multi" THEN symbols ELSE <<symbols[1]>>, n)} :
           l \in Layouts, f \in FieldLists, n \in 0..MaxRows}

\* yf.download('^GSPC'): the index is quoted on every date of its table, which
\* may cover fewer or more dates than the requested symbols' table
BenchTables ==
    UNION {{RawTable(l, f, <<Benchmark>>, n, t) : t \in [{Benchmark} -> RegularColumns(n)]} :
           l \in Layouts, f \in FieldLists, n \in 0..BenchRows}

\* str(raw_data.columns)
ColumnsOf(raw) == [layout |-> raw.layout, fields |-> raw.fields]

\* ------------------------------------------------------------- the handler
\* the request body: a mapping with or without a 'tickers' field
Requests == {[tickers |-> t] : t \in TickerLists} \cup {[other |-> "x"]}
\* the builds: pandas before 3.0 forward-fills in pct_change(), pandas 3 does not
FillMethods == {"pad", "none"}

Unset == [kind |-> "unset"]
Unbound == [kind |-> "unbound"]
Pending == [status |-> 0, body |-> [pending |-> TRUE]]

NoTickersMsg == "No tickers provided"
ExtractMsg == "Could not extract price data from yfinance response"
NeedTwoMsg == "Need at least 2 tickers for correlation analysis"

\* jsonify(body), status
Reply(status, body) == [status |-> status, body |-> body]
\* except Exception as e: jsonify({'error': str(e)}), 500
Caught(e) == Reply(StatusServerError, [error |-> e])

\* data.get('tickers', [])
TickersOf(data) == IF "tickers" \in DOMAIN data THEN data.tickers ELSE <<>>

\* raw_data[field] (lines 33-48): the close field, else the adjusted close,
\* else nothing; a flat table's column is renamed to the one symbol asked
\* for, and is a bare Series when several were asked for
SelectPrices(raw, symbols) ==
    LET pick(f) ==
            IF raw.layout = "multi" THEN Frame(raw.symbols, raw.rows, raw.data[f])
            ELSE IF Len(symbols) = 1
                 THEN Frame(<<symbols[1]>>, raw.rows, [s \in {symbols[1]} |-> raw.data[f][raw.symbols[1]]])
                 ELSE Series(raw.rows, raw.data[f][raw.symbols[1]])
    IN  IF "Close" \in Range(raw.fields) THEN pick("Close")
        ELSE IF "Adj Close" \in Range(raw.fields) THEN pick("Adj Close")
        ELSE None

\* the test of line 50 without its `.empty` half
UnusableNoneOnly(sd) == sd.kind = "none"

\* stock_data is None or stock_data.empty (line 50)
Unusable(sd) == sd.kind = "none" \/ Empty(sd)

\* the benchmark's prices (lines 80-91): squeezed from a two-level table (and
\* left unassigned when it has neither field), a column of a flat one (the
\* first column when it has neither field)
SelectBenchmark(raw) ==
    IF raw.layout = "multi"
    THEN IF "Close" \in Range(raw.fields)
         THEN Squeeze(Frame(raw.symbols, raw.rows, raw.data["Close"]))
         ELSE IF "Adj Close" \in Range(raw.fields)
         THEN Squeeze(Frame(raw.symbols, raw.rows, raw.data["Adj Close"]))
         ELSE Unbound
    ELSE IF "Close" \in Range(raw.fields) THEN Series(raw.rows, raw.data["Close"][raw.symbols[1]])
         ELSE IF "Adj Close" \in Range(raw.fields) THEN Series(raw.rows, raw.data["Adj Close"][raw.symbols[1]])
         ELSE Series(raw.rows, raw.data[raw.fields[1]][raw.symbols[1]])

\* the branch of lines 80-91 that assigns sp500_prices: by a named field, by
\* position (the first column), or none
BenchmarkBranch(raw) ==
    IF "Close" \in Range(raw.fields) \/ "Adj Close" \in Range(raw.fields) THEN "field"
    ELSE IF raw.layout = "multi" THEN "none"
    ELSE "first column"

\* pd.DataFrame({'portfolio': p, 'sp500': b}).dropna(): the dates where both
\* hold a value
Align(p, b) ==
    LET n == IF Len(p) < Len(b) THEN Len(p) ELSE Len(b)
        idx == Both(SubSeq(p, 1, n), SubSeq(b, 1, n))
    IN  [kind |-> "aligned", index |-> idx, portfolio |-> Take(p, idx), sp500 |-> Take(b, idx)]

\* the ratio of line 104 without its guard
SharpeRatioUnguarded(ret, vol) == Divide(ret, vol)

\* portfolio_return / portfolio_volatility if portfolio_volatility != 0 else 0
SharpeRatio(ret, vol) == IF ~IsZero(vol) THEN Divide(ret, vol) ELSE Zero

\* covariance / sp500_variance if sp500_variance != 0 else 0
Beta(cov, var) == IF ~IsZero(var) THEN Divide(cov, var) ELSE Zero

\* a * b in doubles, for a, b >= 0
Times(a, b) ==
    IF IsNaN(a) \/ IsNaN(b) THEN NaN
    ELSE IF IsInf(a) \/ IsInf(b) THEN (IF IsZero(a) \/ IsZero(b) THEN NaN ELSE Inf)
    ELSE QMul(a, b)
\* 1 + r
OnePlus(r) == IF IsNum(r) THEN QAdd(One, r) ELSE r

\* (1 + r).cumprod()
RECURSIVE CumProdFrom(_, _)
CumProdFrom(col, acc) ==
    IF col = <<>> THEN <<>>
    ELSE LET x == Times(acc, OnePlus(Head(col)))
         IN  <<x>> \o CumProdFrom(Tail(col), x)
CumProd(col) == CumProdFrom(col, One)

\* max(a, b) for values that are not NaN
Larger(a, b) ==
    IF IsInf(a) \/ IsInf(b) THEN Inf ELSE QMax(a, b)

\* Series.cummax(): NaN stays NaN and is skipped by the running maximum
RECURSIVE CumMaxFrom(_, _)
CumMaxFrom(col, top) ==
    IF col = <<>> THEN <<>>
    ELSE IF IsNaN(Head(col)) THEN <<NaN>> \o CumMaxFrom(Tail(col), top)
    ELSE LET m == IF IsNaN(top) THEN Head(col) ELSE Larger(top, Head(col))
         IN  <<m>> \o CumMaxFrom(Tail(col), m)
CumMax(col) == CumMaxFrom(col, NaN)

\* a - b in doubles
Minus(a, b) ==
    IF IsNaN(a) \/ IsNaN(b) THEN NaN
    ELSE IF IsInf(a) THEN (IF IsInf(b) THEN NaN ELSE Inf)
    ELSE IF IsInf(b) THEN NaN
    ELSE QSub(a, b)

\* (cumulative - running_max) / running_max
Drawdown(cum, top) ==
    [i \in 1..Len(cum) |->
        IF IsNaN(cum[i]) \/ IsNaN(top[i]) \/ IsInf(top[i]) THEN NaN
        ELSE Divide(Minus(cum[i], top[i]), top[i])]

\* Series.min(): the least value present, NaN when none is
RECURSIVE MinOf(_)
MinOf(col) ==
    IF col = <<>> THEN NaN
    ELSE LET rest == MinOf(Tail(col))
         IN  IF IsNaN(Head(col)) THEN rest
             ELSE IF IsNaN(rest) THEN Head(col)
             ELSE QMin(Head(col), rest)

\* lines 112-115
MaxDrawdown(col) ==
    LET cum == CumProd(col)
    IN  MinOf(Drawdown(cum, CumMax(cum)))

\* lines 102-103, 107-108
PortfolioReturn(al) == TimesInt(Mean(al.portfolio), TradingDays)
PortfolioVolatility(al) == TimesSqrt(Std(al.portfolio), TradingDays)
Covariance(al) == Cov(al.portfolio, al.sp500)
BenchmarkVariance(al) == Var(al.sp500)

\* lines 102-115: the metrics before rounding
Metrics(al) ==
    LET ret == PortfolioReturn(al)
        pvol == PortfolioVolatility(al)
        cov == Covariance(al)
        var == BenchmarkVariance(al)
    IN  [kind |-> "metrics",
         portfolio_return |-> ret,
         portfolio_volatility |-> pvol,
         sharpe_ratio |-> SharpeRatio(ret, pvol),
         covariance |-> cov,
         sp500_variance |-> var,
         beta |-> Beta(cov, var),
         max_drawdown |-> MaxDrawdown(al.portfolio)]

\* the success body (lines 118-131)
Success(symbols, sd, corr, vol, ma, m) ==
    [correlation |-> [s \in DOMAIN corr |-> [t \in DOMAIN corr[s] |-> Round(corr[s][t], CorrDigits)]],
     volatility |-> [s \in DOMAIN vol |-> Round(vol[s], VolDigits)],
     current_prices |-> [s \in Range(sd.columns) |-> Round(sd.col[s][sd.rows], PriceDigits)],
     ma_50 |-> [s \in DOMAIN ma |-> Round(ma[s], PriceDigits)],
     portfolio_metrics |->
        [sharpe_ratio |-> Round(m.sharpe_ratio, SharpeDigits),
         beta |-> Round(m.beta, BetaDigits),
         max_drawdown |-> Round(m.max_drawdown, DrawdownDigits),
         annualized_return |-> Round(m.portfolio_return, ReturnDigits),
         annualized_volatility |-> Round(m.portfolio_volatility, ReturnDigits)],
     tickers |-> symbols]

VARIABLES
    pc,                  \* where the handler stands
    request,             \* the request body
    fill_method,         \* the build's default fill of pct_change()
    tickers,
    stock_data,
    stats,               \* correlation_matrix, returns, volatility, ma_50, portfolio_returns
    sp500_branch,        \* how lines 80-91 picked the benchmark's prices
    aligned_data,
    metrics,             \* the unrounded portfolio metrics of lines 102-115
    response

vars == <<pc, request, fill_method, tickers, stock_data, stats, sp500_branch, aligned_data, metrics, response>>

Init ==
    /\ pc = "start"
    /\ request \in Requests
    /\ fill_method \in FillMethods
    /\ tickers = <<>>
    /\ stock_data = Unset
    /\ stats = Unset
    /\ sp500_branch = "unset"
    /\ aligned_data = Unset
    /\ metrics = Unset
    /\ response = Pending

\* lines 16-20: read the symbols; none is a 400
Request ==
    /\ pc = "start"
    /\ tickers' = TickersOf(request)
    /\ IF tickers' = <<>>
       THEN /\ response' = Reply(StatusBadRequest, [error |-> NoTickersMsg])
            /\ pc' = "done"
       ELSE /\ response' = response
            /\ pc' = "fetch"
    /\ UNCHANGED <<request, fill_method, stock_data, stats, sp500_branch, aligned_data, metrics>>

\* lines 24-58: download, pick the price field, refuse an unusable table,
\* then refuse a single symbol
Fetch ==
    /\ pc = "fetch"
    /\ \E raw \in StockTables(tickers) :
         LET sd == SelectPrices(raw, tickers)
         IN  /\ stock_data' = sd
             /\ IF Unusable(sd)
                THEN /\ response' = Reply(StatusServerError, [error |-> ExtractMsg, columns |-> ColumnsOf(raw)])
                     /\ pc' = "done"
                ELSE IF Len(tickers) = 1
                THEN /\ response' = Reply(StatusBadRequest, [message |-> NeedTwoMsg, tickers |-> tickers])
                     /\ pc' = "done"
                ELSE /\ response' = response
                     /\ pc' = "stats"
    /\ UNCHANGED <<request, fill_method, tickers, stats, sp500_branch, aligned_data, metrics>>

\* line 24 raising: the provider failed
FetchFails ==
    /\ pc = "fetch"
    /\ response' = Caught("ProviderError")
    /\ pc' = "done"
    /\ UNCHANGED <<request, fill_method, tickers, stock_data, stats, sp500_branch, aligned_data, metrics>>

\* lines 61-74: correlation, returns, volatility, moving average, portfolio returns
Stats ==
    /\ pc = "stats"
    /\ IF stock_data.kind = "series"
       THEN \* line 61: Series.corr() without its argument
            /\ response' = Caught("TypeError")
            /\ pc' = "done"
            /\ stats' = stats
       ELSE IF stock_data.rows = 0
       THEN \* line 70: .iloc[-1] of a frame without rows
            /\ response' = Caught("IndexError")
            /\ pc' = "done"
            /\ stats' = stats
       ELSE LET returns == FramePctChange(stock_data, fill_method)
            IN  /\ stats' = [kind |-> "stats",
                             correlation_matrix |-> FrameCorr(stock_data),
                             returns |-> returns,
                             volatility |-> [s \in Range(returns.columns) |-> TimesSqrt(Std(returns.col[s]), TradingDays)],
                             ma_50 |-> [s \in Range(stock_data.columns) |-> RollingLast(stock_data.col[s], MAWindow)],
                             portfolio_returns |-> RowMean(returns)]
                /\ response' = response
                /\ pc' = "benchmark"
    /\ UNCHANGED <<request, fill_method, tickers, stock_data, sp500_branch, aligned_data, metrics>>

\* lines 77-99: download the benchmark, pick its prices, take its returns and
\* align them with the portfolio's
BenchmarkStep ==
    /\ pc = "benchmark"
    /\ \E raw \in BenchTables :
         LET sp500_prices == SelectBenchmark(raw)
         IN  /\ sp500_branch' = BenchmarkBranch(raw)
             /\ IF sp500_prices.kind = "unbound"
                THEN \* line 93 reads a name no branch assigned
                     /\ response' = Caught("UnboundLocalError")
                     /\ pc' = "done"
                     /\ aligned_data' = aligned_data
                ELSE IF sp500_prices.kind = "scalar"
                THEN \* line 93 calls pct_change() on a number
                     /\ response' = Caught("AttributeError")
                     /\ pc' = "done"
                     /\ aligned_data' = aligned_data
                ELSE /\ aligned_data' = Align(stats.portfolio_returns, PctChange(sp500_prices.values, fill_method))
                     /\ response' = response
                     /\ pc' = "metrics"
    /\ UNCHANGED <<request, fill_method, tickers, stock_data, stats, metrics>>

\* line 77 raising
BenchmarkFails ==
    /\ pc = "benchmark"
    /\ response' = Caught("ProviderError")
    /\ pc' = "done"
    /\ UNCHANGED <<request, fill_method, tickers, stock_data, stats, sp500_branch, aligned_data, metrics>>

\* lines 101-133: the portfolio metrics and the response
Respond ==
    /\ pc = "metrics"
    /\ metrics' = Metrics(aligned_data)
    /\ response' = Reply(StatusOk, Success(tickers, stock_data, stats.correlation_matrix,
                                           stats.volatility, stats.ma_50, metrics'))
    /\ pc' = "done"
    /\ UNCHANGED <<request, fill_method, tickers, stock_data, stats, sp500_branch, aligned_data>>

Next ==
    \/ Request
    \/ Fetch
    \/ FetchFails
    \/ Stats
    \/ BenchmarkStep
    \/ BenchmarkFails
    \/ Respond

Spec == Init /\ [][Next]_vars

\* ------------------------------------------------------------------ claims
Done == pc = "done"
Keys == DOMAIN response.body
Succeeded == Done /\ response.status = StatusOk
ComputedFields == {"correlation", "volatility", "current_prices", "ma_50", "portfolio_metrics", "tickers"}
\* the one failure the handler has for a table it cannot take prices from
ExtractionFailure ==
    /\ response.status = StatusServerError
    /\ "error" \in Keys
    /\ response.body.error = ExtractMsg
\* the failure for a single symbol
InsufficientSymbols ==
    /\ response.status = StatusBadRequest
    /\ "message" \in Keys
    /\ response.body.message = NeedTwoMsg
\* the gateway answered the request's download with a table
Downloaded == stock_data.kind # "unset"
Symbols == Range(tickers)

\* C1 (as claimed): a request with exactly one symbol, whatever table the
\* gateway returns for it, ends in the insufficient-symbols failure.
C1_SingleSymbolGate ==
    (Done /\ Len(tickers) = 1 /\ Downloaded) => InsufficientSymbols

\* C2 (as claimed): the portfolio return series holds a value at a date if and
\* only if every symbol has a valid return at that date, and the value is the
\* arithmetic mean over all requested symbols.
C2_StrictIntersection ==
    stats.kind = "stats" =>
        \A i \in 1..stock_data.rows :
            LET all == \A s \in Symbols : IsNum(stats.returns.col[s][i])
                total == SumQ([j \in 1..Len(tickers) |-> stats.returns.col[tickers[j]][i]])
            IN  /\ ~IsNaN(stats.portfolio_returns[i]) <=> all
                /\ all => stats.portfolio_returns[i] = QDiv(total, FromInt(Len(tickers)))

\* Pearson's r of two integer columns from raw sums: r = a / sqrt(b * c) with
\* a = n*Sxy - Sx*Sy, b = n*Sxx - Sx^2, c = n*Syy - Sy^2
RECURSIVE IntSum(_, _)
IntSum(f, i) == IF i = 0 THEN 0 ELSE f[i] + IntSum(f, i - 1)
Dot(x, y) == IntSum([i \in 1..Len(x) |-> x[i] * y[i]], Len(x))

\* v is r rounded to three decimals: v = k/1000 with |1000 r - k| <= 1/2,
\* and v is NaN exactly when r is undefined (b * c = 0, or an infinite value)
IsRoundedPearson(v, x, y, defined) ==
    LET n == Len(x)
        sx == IntSum(x, n)
        sy == IntSum(y, n)
        a == n * Dot(x, y) - sx * sy
        bc == (n * Dot(x, x) - sx * sx) * (n * Dot(y, y) - sy * sy)
        k == Abs(v.n) * (1000 \div v.d)
    IN  IF ~defined \/ bc = 0 THEN IsNaN(v)
        ELSE /\ IsNum(v)
             /\ 1000 % v.d = 0
             /\ v.n = 0 \/ Sgn(v.n) = Sgn(a)
             /\ 4000000 * a * a <= (2 * k + 1) * (2 * k + 1) * bc
             /\ k = 0 \/ (2 * k - 1) * (2 * k - 1) * bc <= 4000000 * a * a

\* the values of two columns at the dates where both hold one, as integers:
\* every value times the least common denominator of its column (r does not
\* change when a column is scaled)
RECURSIVE LCD(_, _)
LCD(col, i) == IF i = 0 THEN 1 ELSE LET l == LCD(col, i - 1) IN (l \div GCD(l, col[i].d)) * col[i].d
Scaled(col) == [i \in 1..Len(col) |-> col[i].n * (LCD(col, Len(col)) \div col[i].d)]
IsCorrelationOf(v, xs, ys) ==
    LET idx == Both(xs, ys)
        x == Take(xs, idx)
        y == Take(ys, idx)
        finite == \A i \in 1..Len(idx) : IsNum(x[i]) /\ IsNum(y[i])
    IN  IsRoundedPearson(v, IF finite THEN Scaled(x) ELSE <<>>, IF finite THEN Scaled(y) ELSE <<>>, finite)

ConstantPrice(s) == \A i \in 1..stock_data.rows : stock_data.col[s][i] = stock_data.col[s][1] /\ IsNum(stock_data.col[s][1])

\* C4 (as claimed): no success response carries NaN as a value of its
\* correlation field, and a symbol whose price never changes has volatility 0.
C4_NoNaNCorrelation ==
    Succeeded =>
        /\ \A s \in Symbols, t \in Symbols : ~IsNaN(response.body.correlation[s][t])
        /\ \A s \in Symbols : ConstantPrice(s) => response.body.volatility[s] = Zero

\* C5 (as claimed): every response is a success with all six fields, or an
\* error with an `error` field and none of the computed fields.
C5_TwoShapes ==
    Done =>
        \/ response.status = StatusOk /\ Keys = ComputedFields
        \/ response.status # StatusOk /\ "error" \in Keys /\ Keys \cap ComputedFields = {}

\* the gateway's table has a price field and zero rows
EmptyTable == stock_data.kind \in {"frame", "series"} /\ stock_data.rows = 0
\* the gateway's table has neither price field
NoPriceField == stock_data.kind = "none"

NeverFalls(cum) ==
    \A i \in 1..Len(cum) : \A j \in 1..i : IsNum(cum[i]) /\ IsNum(cum[j]) /\ QLeq(cum[j], cum[i])

\* C7 (as claimed): the reported maximum drawdown of a success is a number
\* <= 0, and is 0 exactly when the cumulative growth never falls.
C7_DrawdownSign ==
    Succeeded =>
        LET v == response.body.portfolio_metrics.max_drawdown
        IN  /\ IsNum(v)
            /\ v.n <= 0
            /\ v.n = 0 <=> NeverFalls(CumProd(aligned_data.portfolio))

\* at least two aligned dates, and the same finite value on all of them
Flat(col) == Len(col) >= 2 /\ \A i \in 1..Len(col) : IsNum(col[i]) /\ col[i] = col[1]

\* C8: whenever the annualized volatility computed from the aligned portfolio
\* returns is 0 the reported Sharpe ratio is exactly 0, whenever the variance
\* computed from the aligned benchmark returns is 0 the reported beta is
\* exactly 0, and the request succeeds in both cases.
C8_ZeroDenominators ==
    (Done /\ metrics.kind = "metrics") =>
        /\ response.status = StatusOk
        /\ IsZero(metrics.portfolio_volatility) =>
              response.body.portfolio_metrics.sharpe_ratio = Zero
        /\ IsZero(metrics.sp500_variance) =>
              response.body.portfolio_metrics.beta = Zero

\* a success with constant non-zero portfolio returns and constant benchmark returns
C8_Witness ==
    /\ Succeeded
    /\ IsZero(metrics.portfolio_volatility)
    /\ IsZero(metrics.sp500_variance)
    /\ Flat(aligned_data.portfolio)
    /\ ~IsZero(aligned_data.portfolio[1])
    /\ Flat(aligned_data.sp500)

\* C9 (as claimed): a symbol's return at a date is price/previous price - 1
\* when both prices are present and not zero, and undefined otherwise.
C9_ReturnsOnlyFromPrices ==
    stats.kind = "stats" =>
        \A s \in Symbols : \A i \in 1..stock_data.rows :
            LET p == stock_data.col[s]
                priced(j) == j >= 1 /\ IsNum(p[j]) /\ ~IsZero(p[j])
            IN  IF priced(i) /\ priced(i - 1)
                THEN stats.returns.col[s][i] = QSub(QDiv(p[i], p[i - 1]), One)
                ELSE IsNaN(stats.returns.col[s][i])

\* C10 (as claimed): a table with neither price field, the requested
\* symbols' or the benchmark's, fails the request with the one failure for
\* an unrecognised table.
C10_OneRule ==
    (Done /\ (NoPriceField \/ sp500_branch \in {"none", "first column"})) => ExtractionFailure
====
